---- MODULE Spec2Model ----
(***************************************************************************)
(* Verification model of the D3.js static charts:                          *)
(*   - the rate chart's pure layout functions                              *)
(*       collapseRecessionPeriods, makeScales, calcLegendArea,             *)
(*       appendLegendOneRow, and the tick values of appendYAxis            *)
(*   - the rate chart's draw (getData -> axes -> grid lines by             *)
(*       extractTranslation -> bars, border, waveform, legend)             *)
(*   - the map chart's callback-driven draw (getData -> appendMap ->       *)
(*       route arcs, airport circles, title, legend).                      *)
(*                                                                         *)
(* Numbers are modelled exactly, as integers in a fixed unit:              *)
(*   dates          whole days (the CSV holds one row per day)             *)
(*   rates          1e-4 (a CSV rate '2.34' is the rate 0.0234 = 234)      *)
(*   longitudes,                                                           *)
(*   latitudes      1e-7 degree (the scale domains are given to 7 places)  *)
(*   map pixels     half steps of the axis' scale, see MapPixel            *)
(* but for the y axis' tick values, which are computed as the IEEE 754     *)
(* doubles of the browser, bit for bit, because the rounding of that       *)
(* arithmetic decides what holds of them.                                  *)
(***************************************************************************)
EXTENDS Integers, Sequences, FiniteSets, TLC

VARIABLES
    data,          \* rate chart: the rows handed to the function under check
    periods,       \* rate chart: result of collapseRecessionPeriods(data)
    cpc,           \* "ready" before collapseRecessionPeriods ran, "done" after
    scales,        \* rate chart: result of makeScales(data, plot)
    spc,           \* "ready" before makeScales ran, then "done" or "thrown"
    maxTextWidth,  \* rate chart legend: first argument of calcLegendArea
    numRows,       \* rate chart legend: second argument of calcLegendArea
    area,          \* rate chart legend: result of calcLegendArea
    lpc,           \* "ready" before calcLegendArea ran, "done" after it,
                   \* "rows" once the legend's rows are appended
    legendRows,    \* rate chart legend: the elements of the rows appended
    mpc,           \* map chart: where draw and its callbacks stand
    jsonReq,       \* map chart: the airport-data request of getData
    xmlReq,        \* map chart: the base-map request of appendMap
    airports,      \* map chart: the data the getData callback received
    dom,           \* map chart: the elements appended so far, in order
    rpc,           \* rate chart: where draw and its callback stand
    csvReq,        \* rate chart: the rate-data.csv request of getData
    rdom,          \* rate chart: the elements appended so far, in order
    rerr,          \* rate chart: the error that ended the callback, if any
    yscale,        \* rate chart y axis: the domain of scales.y, as doubles
    yticks,        \* rate chart y axis: the tickValues handed to the axis
    ypc            \* "ready", then "scaled" after makeScales, "done" after
                   \* appendYAxis

collapseVars == <<periods, cpc>>
scaleVars == <<scales, spc>>
legendVars == <<maxTextWidth, numRows, area, lpc, legendRows>>
mapVars == <<mpc, jsonReq, xmlReq, airports, dom>>
rateVars == <<rpc, csvReq, rdom, rerr>>
axisVars == <<yscale, yticks, ypc>>

vars == <<data, periods, cpc, scales, spc, maxTextWidth, numRows, area, lpc,
          legendRows, mpc, jsonReq, xmlReq, airports, dom,
          rpc, csvReq, rdom, rerr, yscale, yticks, ypc>>

-----------------------------------------------------------------------------
(* JavaScript values the code distinguishes.                               *)

\* the value undefined
Undefined == [type |-> "undefined"]

\* the value null
Null == [type |-> "null"]

\* an array with the given elements
JsArray(items) == [type |-> "array", items |-> items]

\* a Date object holding day number t
DateOf(t) == [type |-> "Date", time |-> t]

\* a primitive string holding the decimal digits of k (a for..in key)
JsString(k) == [type |-> "string", value |-> k]

\* a primitive number
JsNumber(k) == [type |-> "number", value |-> k]

\* a === b : no conversion, operands of different types are never equal
StrictEquals(a, b) == a.type = b.type /\ a = b

\* ToBoolean(v) for the values startDate takes: undefined is falsy and an
\* object (a Date, whatever its time) is truthy
ToBoolean(v) == v.type # "undefined"

\* the keys `for (const i in data)` enumerates: the array's indices in
\* ascending order, each as a string
ForInKeys(arr) == [k \in 1..Len(arr) |-> JsString(k - 1)]

\* data[i] for a key i (property lookup converts the key to an index)
ElementAt(arr, i) == arr[i.value + 1]

-----------------------------------------------------------------------------
(* Bounds.                                                                 *)

MaxLen == 5          \* longest input sequence
MaxDate == 6         \* dates are days 1..MaxDate
MaxTextWidth == 15   \* widest measured legend text, in pixels
MaxRows == 3         \* most legend rows
MaxAirports == 3     \* most airports in the map chart's dataset
MaxAxisRows == 2     \* most rows of an input of the y axis
MaxChartRows == 2    \* most rows of rate-data.csv
MaxXTicks == 3       \* most ticks of the x axis

-----------------------------------------------------------------------------
(* Exact fractions num/den, den > 0, for pixel values that are not whole.   *)

Frac(n, d) == IF d < 0 THEN [num |-> -n, den |-> -d] ELSE [num |-> n, den |-> d]

Whole(n) == [num |-> n, den |-> 1]

FracLess(a, b) == a.num * b.den < b.num * a.den

FracEq(a, b) == a.num * b.den = b.num * a.den

FracAdd(a, b) == Frac(a.num * b.den + b.num * a.den, a.den * b.den)

\* Math.floor(v / q) and Math.ceil(v / q) for q > 0
Floor(v, q) == v \div q

Ceil(v, q) == -((-v) \div q)

\* a linear (or time) scale with the given two-point domain and range,
\* applied to v:  range[0] + (v - domain[0]) / (domain[1] - domain[0])
\*                          * (range[1] - range[0])
ScaleApply(scale, v) ==
    Frac(scale.range[1] * (scale.domain[2] - scale.domain[1])
             + (v - scale.domain[1]) * (scale.range[2] - scale.range[1]),
         scale.domain[2] - scale.domain[1])

-----------------------------------------------------------------------------
(* collapseRecessionPeriods                                                 *)

\* One pass of the for..in body, with a deliberate slip: the opening test
\* forgets `startDate === undefined`, so every flagged record restarts the run.
LoopBodyRestartsRun(st, arr, i) ==
    LET datum == ElementAt(arr, i) IN
    IF datum.isRecession
    THEN [startDate |-> datum.date, periods |-> st.periods]
    ELSE IF ToBoolean(st.startDate)
              /\ (~datum.isRecession \/ StrictEquals(i, JsNumber(Len(arr) - 1)))
    THEN [startDate |-> Undefined,
          periods   |-> Append(st.periods,
                               [startDate |-> st.startDate, endDate |-> datum.date])]
    ELSE st

\* A slip in the pushed record: the period ends where it starts.
LoopBodyEndsAtStart(st, arr, i) ==
    LET datum == ElementAt(arr, i) IN
    IF st.startDate = Undefined /\ datum.isRecession
    THEN [startDate |-> datum.date, periods |-> st.periods]
    ELSE IF ToBoolean(st.startDate)
              /\ (~datum.isRecession \/ StrictEquals(i, JsNumber(Len(arr) - 1)))
    THEN [startDate |-> Undefined,
          periods   |-> Append(st.periods,
                               [startDate |-> st.startDate, endDate |-> st.startDate])]
    ELSE st

\* A slip in the closing test: `startDate &&` is dropped.
LoopBodyClosesUnopened(st, arr, i) ==
    LET datum == ElementAt(arr, i) IN
    IF st.startDate = Undefined /\ datum.isRecession
    THEN [startDate |-> datum.date, periods |-> st.periods]
    ELSE IF ~datum.isRecession \/ StrictEquals(i, JsNumber(Len(arr) - 1))
    THEN [startDate |-> Undefined,
          periods   |-> Append(st.periods,
                               [startDate |-> st.startDate, endDate |-> datum.date])]
    ELSE st

\* A slip after the push: `startDate = undefined` is missing, so the run
\* stays open and every later unflagged record closes it again.
LoopBodyKeepsRunOpen(st, arr, i) ==
    LET datum == ElementAt(arr, i) IN
    IF st.startDate = Undefined /\ datum.isRecession
    THEN [startDate |-> datum.date, periods |-> st.periods]
    ELSE IF ToBoolean(st.startDate)
              /\ (~datum.isRecession \/ StrictEquals(i, JsNumber(Len(arr) - 1)))
    THEN [startDate |-> st.startDate,
          periods   |-> Append(st.periods,
                               [startDate |-> st.startDate, endDate |-> datum.date])]
    ELSE st

\* One pass of the body of `for (const i in data)`; st holds the two locals
\* the loop updates, startDate and periods.
LoopBody(st, arr, i) ==
    LET datum == ElementAt(arr, i) IN
    IF st.startDate = Undefined /\ datum.isRecession
    THEN [startDate |-> datum.date, periods |-> st.periods]
    ELSE IF ToBoolean(st.startDate)
              /\ (~datum.isRecession \/ StrictEquals(i, JsNumber(Len(arr) - 1)))
    THEN [startDate |-> Undefined,
          periods   |-> Append(st.periods,
                               [startDate |-> st.startDate, endDate |-> datum.date])]
    ELSE st

\* The loop from its k-th key on.
RECURSIVE CollapseLoop(_, _, _)
CollapseLoop(st, arr, k) ==
    IF k > Len(arr) THEN st
    ELSE CollapseLoop(LoopBody(st, arr, ForInKeys(arr)[k]), arr, k + 1)

collapseRecessionPeriods(arr) ==
    CollapseLoop([startDate |-> Undefined, periods |-> <<>>], arr, 1).periods

-----------------------------------------------------------------------------
(* Rate chart: getPlotArea and makeScales                                   *)

getPlotAreaRate ==
    LET svg == [width |-> 800, height |-> 420]
        padding == [top |-> 10, right |-> 90, bottom |-> 40, left |-> 20]
    IN [svg     |-> svg,
        padding |-> padding,
        range   |-> [x |-> svg.width - padding.left - padding.right,
                     y |-> svg.height - padding.top - padding.bottom]]

\* headroom beyond the charted data, in the data domain: 0.005 as a rate
\* (in units of 1e-4) and whole days
rateHeadroom == 50
dateMinHeadroomDays == 14
dateMaxHeadroomDays == 7

\* d3.min and d3.max of a non-empty array of numbers
d3min(arr) == CHOOSE v \in {arr[k] : k \in 1..Len(arr)} :
                  \A k \in 1..Len(arr) : v <= arr[k]

d3max(arr) == CHOOSE v \in {arr[k] : k \in 1..Len(arr)} :
                  \A k \in 1..Len(arr) : v >= arr[k]

\* makeScales with a slip: the x domain is the data's own first and last
\* date, without the headroom days.
makeScalesRateNoDateHeadroom(arr, plot) ==
    LET rates == [k \in 1..Len(arr) |-> arr[k].rate]
        minDate == arr[1].date.time
        maxDate == arr[Len(arr)].date.time
        minRate == Floor(100 * d3min(rates), 10000) * 100 - rateHeadroom
        maxRate == Ceil(100 * d3max(rates), 10000) * 100 + rateHeadroom
    IN [x |-> [domain |-> <<minDate, maxDate>>, range |-> <<0, plot.range.x>>],
        y |-> [domain |-> <<minRate, maxRate>>, range |-> <<plot.range.y, 0>>]]

\* makeScales(data, plot) of the rate chart, for non-empty data. A rate r is
\* held as the integer 10000 * r, so Math.floor(100.0 * r) / 100.0 is
\* Floor(100 * r, 10000) * 100 in the same unit.
makeScalesRate(arr, plot) ==
    LET rates == [k \in 1..Len(arr) |-> arr[k].rate]
        minDate == arr[1].date.time - dateMinHeadroomDays
        maxDate == arr[Len(arr)].date.time + dateMaxHeadroomDays
        minRate == Floor(100 * d3min(rates), 10000) * 100 - rateHeadroom
        maxRate == Ceil(100 * d3max(rates), 10000) * 100 + rateHeadroom
    IN [x |-> [domain |-> <<minDate, maxDate>>, range |-> <<0, plot.range.x>>],
        y |-> [domain |-> <<minRate, maxRate>>, range |-> <<plot.range.y, 0>>]]

-----------------------------------------------------------------------------
(* JavaScript numbers as IEEE 754 doubles, for the arithmetic of the y      *)
(* axis, where the exact values of the ticks are in question.               *)
(*                                                                          *)
(* A natural number of any size is the sequence of its digits in base       *)
(* 2^LimbBits, lowest first, without a leading zero (0 is the empty         *)
(* sequence). A double is a record [neg, m, e] standing for                 *)
(* (-1)^neg * m * 2^e with m of exactly Precision bits, or m = 0 and e = 0, *)
(* so that two doubles are equal iff their records are; a real number that  *)
(* is yet to be rounded is such a record with any m. The values at hand lie *)
(* far inside the normal range, so subnormals, overflow, NaN and the sign   *)
(* of zero are left out.                                                    *)

\* bits of the significand of a double
Precision == 53

\* bits of one digit of a natural number, and the base 2^LimbBits
LimbBits == 15

Base == 32768

\* extra quotient bits computed by a division before rounding: with
\* divisors below 2^10 the quotient has more than Precision bits
GuardBits == 64

RECURSIVE NatLimbs(_)
NatLimbs(n) == IF n = 0 THEN <<>> ELSE <<n % Base>> \o NatLimbs(n \div Base)

RECURSIVE Trim(_)
Trim(b) ==
    IF b = <<>> THEN b
    ELSE IF b[Len(b)] = 0 THEN Trim(SubSeq(b, 1, Len(b) - 1))
    ELSE b

RECURSIVE BAdd(_, _, _)
BAdd(a, b, carry) ==
    IF a = <<>> /\ b = <<>>
    THEN IF carry = 0 THEN <<>> ELSE <<carry>>
    ELSE LET x == IF a = <<>> THEN 0 ELSE Head(a)
             y == IF b = <<>> THEN 0 ELSE Head(b)
             sum == x + y + carry
         IN <<sum % Base>> \o BAdd(IF a = <<>> THEN a ELSE Tail(a),
                                   IF b = <<>> THEN b ELSE Tail(b),
                                   sum \div Base)

\* a - b - borrow for a >= b + borrow, untrimmed
RECURSIVE BSub(_, _, _)
BSub(a, b, borrow) ==
    IF a = <<>> THEN <<>>
    ELSE LET y == IF b = <<>> THEN 0 ELSE Head(b)
             diff == Head(a) - y - borrow
         IN <<diff % Base>> \o BSub(Tail(a),
                                    IF b = <<>> THEN b ELSE Tail(b),
                                    IF diff < 0 THEN 1 ELSE 0)

BLess(a, b) ==
    IF Len(a) # Len(b) THEN Len(a) < Len(b)
    ELSE \E i \in 1..Len(a) :
            /\ a[i] < b[i]
            /\ \A j \in (i + 1)..Len(a) : a[j] = b[j]

\* a * k + carry for a natural k below 2^15
RECURSIVE BMulSmall(_, _, _)
BMulSmall(a, k, carry) ==
    IF a = <<>> THEN NatLimbs(carry)
    ELSE LET prod == Head(a) * k + carry
         IN <<prod % Base>> \o BMulSmall(Tail(a), k, prod \div Base)

\* long division of a by a natural k below 2^15, from digit i of a downwards
RECURSIVE BDivStep(_, _, _, _, _)
BDivStep(a, i, k, rem, q) ==
    IF i = 0 THEN [q |-> Trim(q), rem |-> rem]
    ELSE LET r2 == rem * Base + a[i]
         IN BDivStep(a, i - 1, k, r2 % k, <<r2 \div k>> \o q)

BDivSmall(a, k) == BDivStep(a, Len(a), k, 0, <<>>)

\* the number of bits of a: the least n with a < 2^n
BitLen(a) ==
    IF a = <<>> THEN 0
    ELSE (Len(a) - 1) * LimbBits
         + CHOOSE n \in 1..LimbBits : 2^(n - 1) <= a[Len(a)] /\ a[Len(a)] < 2^n

\* a * 2^n
ShiftLeft(a, n) ==
    IF a = <<>> THEN a
    ELSE [i \in 1..(n \div LimbBits) |-> 0]
         \o Trim(BMulSmall(a, 2^(n % LimbBits), 0))

\* a \div 2^n
ShiftRight(a, n) ==
    IF n \div LimbBits >= Len(a) THEN <<>>
    ELSE BDivSmall(SubSeq(a, n \div LimbBits + 1, Len(a)), 2^(n % LimbBits)).q

\* a % 2^n # 0
LowBitsNonzero(a, n) ==
    \/ \E i \in 1..Len(a) : i <= n \div LimbBits /\ a[i] # 0
    \/ /\ n \div LimbBits < Len(a)
       /\ a[n \div LimbBits + 1] % 2^(n % LimbBits) # 0

\* bit i of a, the lowest being bit 0
BitOf(a, i) ==
    IF i \div LimbBits >= Len(a) THEN 0
    ELSE (a[i \div LimbBits + 1] \div 2^(i % LimbBits)) % 2

\* the double that is exactly m * 2^e, for m of at most Precision bits
Norm(neg, m, e) ==
    IF m = <<>> THEN [neg |-> FALSE, m |-> <<>>, e |-> 0]
    ELSE [neg |-> neg,
          m   |-> ShiftLeft(m, Precision - BitLen(m)),
          e   |-> e - (Precision - BitLen(m))]

\* round to nearest, ties to even: the double nearest to m * 2^e (plus a
\* nonzero amount below 2^e when sticky, which takes m of more than
\* Precision bits)
RoundToDouble(neg, m, e, sticky) ==
    IF BitLen(m) <= Precision THEN Norm(neg, m, e)
    ELSE LET drop == BitLen(m) - Precision
             kept == ShiftRight(m, drop)
             low  == sticky \/ LowBitsNonzero(m, drop - 1)
             up   == BitOf(m, drop - 1) = 1 /\ (low \/ BitOf(kept, 0) = 1)
             sig  == IF up THEN BAdd(kept, <<1>>, 0) ELSE kept
         IN IF BitLen(sig) > Precision
            THEN Norm(neg, ShiftRight(sig, 1), e + drop + 1)
            ELSE Norm(neg, sig, e + drop)

\* x + y before rounding
ExactAdd(x, y) ==
    LET e  == IF x.e < y.e THEN x.e ELSE y.e
        mx == ShiftLeft(x.m, x.e - e)
        my == ShiftLeft(y.m, y.e - e)
    IN IF x.neg = y.neg THEN [neg |-> x.neg, m |-> BAdd(mx, my, 0), e |-> e]
       ELSE IF BLess(mx, my)
       THEN [neg |-> y.neg, m |-> Trim(BSub(my, mx, 0)), e |-> e]
       ELSE [neg |-> x.neg, m |-> Trim(BSub(mx, my, 0)), e |-> e]

DNeg(x) == IF x.m = <<>> THEN x ELSE [x EXCEPT !.neg = ~x.neg]

\* the JavaScript operators x + y and x - y
DAdd(x, y) == LET z == ExactAdd(x, y) IN RoundToDouble(z.neg, z.m, z.e, FALSE)

DSub(x, y) == DAdd(x, DNeg(y))

\* x - y as a real number, which need not fit a double
ExactSub(x, y) == ExactAdd(x, DNeg(y))

\* x < y and x <= y, for doubles and for real numbers yet to be rounded
DLess(x, y) == LET z == ExactSub(y, x) IN z.m # <<>> /\ ~z.neg

DLeq(x, y) == ~DLess(y, x)

\* the double of an integer below 2^31
DOfInt(n) == Norm(n < 0, NatLimbs(IF n < 0 THEN -n ELSE n), 0)

\* x * k and x / k for a double k that is a small natural number
DMulSmall(x, k) ==
    RoundToDouble(x.neg, Trim(BMulSmall(x.m, k, 0)), x.e, FALSE)

DDivSmall(x, k) ==
    LET d == BDivSmall(ShiftLeft(x.m, GuardBits), k)
    IN RoundToDouble(x.neg, d.q, x.e - GuardBits, d.rem # 0)

\* Math.floor and Math.ceil
DFloor(x) ==
    IF x.e >= 0 THEN x
    ELSE LET q == ShiftRight(x.m, -x.e)
         IN IF x.neg /\ LowBitsNonzero(x.m, -x.e)
            THEN Norm(TRUE, BAdd(q, <<1>>, 0), 0)
            ELSE Norm(x.neg, q, 0)

DCeil(x) == DNeg(DFloor(DNeg(x)))

\* the double a decimal numeral n / scale is read as (+'2.34', 0.005)
DOfDecimal(n, scale) == DDivSmall(DOfInt(n), scale)

\* rate: +oneRow['10YTR'] / 100.0, for the CSV text of c / 100 percent
RateOfCsv(c) == DDivSmall(DOfDecimal(c, 100), 100)

\* const rateHeadroom = 0.005, as the double it is
rateHeadroomDouble == DOfDecimal(5, 1000)

\* d3.min and d3.max of a non-empty array of doubles
d3minDouble(arr) ==
    CHOOSE v \in {arr[k] : k \in 1..Len(arr)} : \A k \in 1..Len(arr) : DLeq(v, arr[k])

d3maxDouble(arr) ==
    CHOOSE v \in {arr[k] : k \in 1..Len(arr)} : \A k \in 1..Len(arr) : DLeq(arr[k], v)

\* the domain [minRate, maxRate] of scales.y as makeScales computes it
makeScalesYDomain(arr) ==
    LET rates == [k \in 1..Len(arr) |-> RateOfCsv(arr[k].rate)]
        minRate == DSub(DDivSmall(DFloor(DMulSmall(d3minDouble(rates), 100)), 100),
                        rateHeadroomDouble)
        maxRate == DAdd(DDivSmall(DCeil(DMulSmall(d3maxDouble(rates), 100)), 100),
                        rateHeadroomDouble)
    IN <<minRate, maxRate>>

\* appendYAxis
numTicks == 7

\* tickStep with a slip: the two headrooms are not taken off the span
tickStepOverHeadroom(domain) ==
    DDivSmall(DSub(domain[2], domain[1]), numTicks - 1)

tickStep(domain) ==
    DDivSmall(DSub(DSub(domain[2], domain[1]), DMulSmall(rateHeadroomDouble, 2)),
              numTicks - 1)

firstValue(domain) == DAdd(domain[1], rateHeadroomDouble)

\* [...Array(numTicks).keys()].map(i => tickStep * i + firstValue)
tickValues(domain) ==
    [k \in 1..numTicks |->
        DAdd(DMulSmall(tickStep(domain), k - 1), firstValue(domain))]

-----------------------------------------------------------------------------
(* Rate chart: calcLegendArea                                               *)

\* calcLegendArea with a slip: the plate's height counts one margin per row
\* and forgets the closing one.
calcLegendAreaShortPlate(textWidth, rows) ==
    LET plateMargin == 10
        squareMargin == 5
        squareWidth == 10
        plateWidth == plateMargin + textWidth + 2 * squareMargin + squareWidth
    IN [legend |-> [margin |-> 10],
        plate  |-> [margin |-> plateMargin,
                    width  |-> plateWidth,
                    height |-> rows * squareMargin + rows * squareWidth],
        square |-> [margin |-> squareMargin,
                    width  |-> squareWidth,
                    x      |-> plateWidth - squareWidth - squareMargin],
        text   |-> [fontOffset |-> 9]]

calcLegendArea(textWidth, rows) ==
    LET plateMargin == 10
        squareMargin == 5
        squareWidth == 10
        plateWidth == plateMargin + textWidth + 2 * squareMargin + squareWidth
    IN [legend |-> [margin |-> 10],
        plate  |-> [margin |-> plateMargin,
                    width  |-> plateWidth,
                    height |-> (rows + 1) * squareMargin + rows * squareWidth],
        square |-> [margin |-> squareMargin,
                    width  |-> squareWidth,
                    x      |-> plateWidth - squareWidth - squareMargin],
        text   |-> [fontOffset |-> 9]]

\* appendLegendOneRow with a slip: the row's offset counts a margin and a
\* width per row, so row r starts a square's width too low for every r.
appendLegendOneRowRateTooLow(a, rowNum, squareClass, textString) ==
    <<[kind |-> "legendSquare", tag |-> "rect", parent |-> "legend",
       class |-> squareClass,
       x |-> a.square.x,
       y |-> (rowNum + 1) * (a.square.margin + a.square.width),
       width |-> a.square.width, height |-> a.square.width],
      [kind |-> "legendLabel", tag |-> "text", parent |-> "legend",
       x |-> a.square.x - a.square.margin,
       y |-> (rowNum + 1) * a.square.margin + a.text.fontOffset
                 + rowNum * a.square.width,
       text |-> textString]>>

\* appendLegendOneRow(legendGroup, area, rowNum, squareClass, textString) of
\* the rate chart: the two elements it appends to the legend group
appendLegendOneRowRate(a, rowNum, squareClass, textString) ==
    <<[kind |-> "legendSquare", tag |-> "rect", parent |-> "legend",
       class |-> squareClass,
       x |-> a.square.x,
       y |-> (rowNum + 1) * a.square.margin + rowNum * a.square.width,
       width |-> a.square.width, height |-> a.square.width],
      [kind |-> "legendLabel", tag |-> "text", parent |-> "legend",
       x |-> a.square.x - a.square.margin,
       y |-> (rowNum + 1) * a.square.margin + a.text.fontOffset
                 + rowNum * a.square.width,
       text |-> textString]>>

-----------------------------------------------------------------------------
(* Map chart: getPlotArea, makeScales and the scales' pixel values          *)

getPlotAreaMap ==
    LET svg == [width |-> 800, height |-> 500]
        padding == [top |-> 60, right |-> 5, bottom |-> 5, left |-> 5]
    IN [svg     |-> svg,
        padding |-> padding,
        range   |-> [x |-> svg.width - padding.left - padding.right,
                     y |-> svg.height - padding.top - padding.bottom]]

\* domains in 1e-7 degree (x, y) and in movements (r)
makeScalesMap(plot) ==
    [r |-> [domain |-> <<100000, 1000000>>, range |-> <<1, 10>>],
     x |-> [domain |-> <<-1247117760, -670999376>>, range |-> <<0, plot.range.x>>],
     y |-> [domain |-> <<245646815, 493782021>>, range |-> <<plot.range.y, 0>>]]

\* scales.x(v) and scales.y(v).  The scale is linear and one end of its
\* range is 0, so the pixel value is a whole number of steps from that end,
\* a step being the pixel length of 1e-7 degree,
\*     |range[1] - range[0]| / (domain[1] - domain[0])  pixels.
\* Pixel values along an axis are counted in HALF steps of that axis, which
\* keeps the factor 1.5 of the arc radius exact.
MapPixel(scale, v) ==
    IF scale.range[1] = 0
    THEN 2 * (v - scale.domain[1])
    ELSE 2 * (scale.domain[2] - v)

-----------------------------------------------------------------------------
(* Map chart: the elements the drawing functions append                     *)

\* chartUtils.setupSvgAndPaddingGroup, after d3.select('body').append('svg')
setupSvgAndPaddingGroup(plot) ==
    <<[kind |-> "svg", tag |-> "svg", parent |-> "body",
       width |-> plot.svg.width, height |-> plot.svg.height],
      [kind |-> "paddingGroup", tag |-> "g", parent |-> "svg",
       transform |-> <<plot.padding.left, plot.padding.top>>]>>

\* the element appendMap's callback appends for the loaded document
MapElement(doc, plot) ==
    [kind |-> "map", tag |-> "svg", parent |-> "paddingGroup",
     width |-> plot.range.x, height |-> plot.range.y,
     viewBox |-> <<0, 0, doc.width, doc.height>>,
     preserveAspectRatio |-> "none"]

\* appendOneRouteArc with a slip: the radius is taken as a distance.
appendOneRouteArcAbsRadius(departureAirport, arrivalAirport, sc) ==
    LET xAxisRotation == 0
        largeArcFlag == 0
        curX == MapPixel(sc.x, departureAirport.longitude)
        curY == MapPixel(sc.y, departureAirport.latitude)
        newX == MapPixel(sc.x, arrivalAirport.longitude)
        newY == MapPixel(sc.y, arrivalAirport.latitude)
        dx == IF newX < curX THEN curX - newX ELSE newX - curX
        rx == (dx \div 2) * 3
        ry == rx
        sweepFlag == 1
    IN [kind |-> "routeArc", tag |-> "path", parent |-> "routes",
        d |-> [M |-> <<curX, curY>>, rx |-> rx, ry |-> ry,
               xAxisRotation |-> xAxisRotation, largeArcFlag |-> largeArcFlag,
               sweepFlag |-> sweepFlag, to |-> <<newX, newY>>],
        class |-> IF curX < newX THEN "eastward" ELSE "westward"]

\* appendOneRouteArc with a slip: the sweep flag follows the direction.
appendOneRouteArcSweepByDirection(departureAirport, arrivalAirport, sc) ==
    LET xAxisRotation == 0
        largeArcFlag == 0
        curX == MapPixel(sc.x, departureAirport.longitude)
        curY == MapPixel(sc.y, departureAirport.latitude)
        newX == MapPixel(sc.x, arrivalAirport.longitude)
        newY == MapPixel(sc.y, arrivalAirport.latitude)
        rx == ((newX - curX) \div 2) * 3
        ry == rx
        sweepFlag == IF curX < newX THEN 1 ELSE 0
    IN [kind |-> "routeArc", tag |-> "path", parent |-> "routes",
        d |-> [M |-> <<curX, curY>>, rx |-> rx, ry |-> ry,
               xAxisRotation |-> xAxisRotation, largeArcFlag |-> largeArcFlag,
               sweepFlag |-> sweepFlag, to |-> <<newX, newY>>],
        class |-> IF curX < newX THEN "eastward" ELSE "westward"]

\* appendOneRouteArc: the path it appends.  The 'd' attribute is held as the
\* values the code concatenates, in the order it writes them.  rx is
\* (newX - curX) * 1.5; newX - curX is an even number of half steps.
appendOneRouteArc(departureAirport, arrivalAirport, sc) ==
    LET xAxisRotation == 0
        largeArcFlag == 0
        curX == MapPixel(sc.x, departureAirport.longitude)
        curY == MapPixel(sc.y, departureAirport.latitude)
        newX == MapPixel(sc.x, arrivalAirport.longitude)
        newY == MapPixel(sc.y, arrivalAirport.latitude)
        rx == ((newX - curX) \div 2) * 3
        ry == rx
        sweepFlag == 1
    IN [kind |-> "routeArc", tag |-> "path", parent |-> "routes",
        d |-> [M |-> <<curX, curY>>, rx |-> rx, ry |-> ry,
               xAxisRotation |-> xAxisRotation, largeArcFlag |-> largeArcFlag,
               sweepFlag |-> sweepFlag, to |-> <<newX, newY>>],
        class |-> IF curX < newX THEN "eastward" ELSE "westward"]

\* the inner loop with a slip: `j > i` for `j != i`, which draws each pair
\* of airports in one direction only.
RECURSIVE RouteArcsInnerOneWay(_, _, _, _, _)
RouteArcsInnerOneWay(arcs, arr, sc, i, j) ==
    IF ~(j < Len(arr)) THEN arcs
    ELSE RouteArcsInnerOneWay(
             IF j > i
             THEN Append(arcs, appendOneRouteArc(arr[i + 1], arr[j + 1], sc))
             ELSE arcs,
             arr, sc, i, j + 1)

\* the inner loop of appendRouteArcs for datum i: for (j = 0; j < length; ++j)
RECURSIVE RouteArcsInner(_, _, _, _, _)
RouteArcsInner(arcs, arr, sc, i, j) ==
    IF ~(j < Len(arr)) THEN arcs
    ELSE RouteArcsInner(
             IF j # i
             THEN Append(arcs, appendOneRouteArc(arr[i + 1], arr[j + 1], sc))
             ELSE arcs,
             arr, sc, i, j + 1)

\* .each(function(d,i) {...}) over the entered data, from datum i on
RECURSIVE RouteArcsEach(_, _, _, _)
RouteArcsEach(arcs, arr, sc, i) ==
    IF i >= Len(arr) THEN arcs
    ELSE RouteArcsEach(RouteArcsInner(arcs, arr, sc, i, 0), arr, sc, i + 1)

\* the group appendRouteArcs appends before it binds the data
RoutesGroup ==
    [kind |-> "routesGroup", tag |-> "g", parent |-> "paddingGroup",
     class |-> "routes"]

appendRouteArcs(arr, sc) == <<RoutesGroup>> \o RouteArcsEach(<<>>, arr, sc, 0)

\* appendOneAirportCircle; textWidth is what chartUtils.calcTextWidth
\* measured for the airport's code on the hidden text element it appends
appendOneAirportCircle(airport, sc, textWidth) ==
    LET fontOffset == 16
        plateMargin == 3
        platePadding == 1
        cx == MapPixel(sc.x, airport.longitude)
        cy == MapPixel(sc.y, airport.latitude)
        r == ScaleApply(sc.r, airport.movements2015)
    IN <<[kind |-> "airportGroup", tag |-> "g", parent |-> "paddingGroup",
          class |-> "airport", transform |-> <<cx, cy>>],
         [kind |-> "airportCircle", tag |-> "circle", parent |-> "airport",
          r |-> r],
         [kind |-> "hiddenText", tag |-> "text", parent |-> "paddingGroup",
          class |-> "airport-hidden", x |-> -99999, text |-> airport.code],
         [kind |-> "airportPlate", tag |-> "rect", parent |-> "airport",
          class |-> "plate",
          x |-> Frac(-(textWidth + 2 * platePadding), 2),
          y |-> FracAdd(r, Whole(plateMargin)),
          width |-> textWidth + 2 * platePadding,
          height |-> fontOffset + platePadding],
         [kind |-> "airportCode", tag |-> "text", parent |-> "airport",
          y |-> FracAdd(r, Whole(fontOffset)), text |-> airport.code]>>

RECURSIVE AirportCirclesEach(_, _, _, _)
AirportCirclesEach(arr, sc, tw, i) ==
    IF i >= Len(arr) THEN <<>>
    ELSE appendOneAirportCircle(arr[i + 1], sc, tw[arr[i + 1].code])
            \o AirportCirclesEach(arr, sc, tw, i + 1)

appendAirportCircles(arr, sc, tw) == AirportCirclesEach(arr, sc, tw, 0)

appendChartTitle(plot) ==
    <<[kind |-> "chartTitle", tag |-> "text", parent |-> "svg",
       class |-> "chartTitle",
       x |-> Frac(plot.svg.width, 2),
       y |-> Frac(plot.padding.top * 66, 100),
       text |-> "Air routes among airports with highest plane movements (2015)"]>>

\* appendLegendOneRow of the map chart
appendLegendOneRowMap(legendArea, rowNum, shapeName, shapeClass, textString) ==
    (IF shapeName = "circle"
     THEN <<[kind |-> "legendShape", tag |-> "circle", parent |-> "legend",
             class |-> shapeClass,
             cy |-> rowNum * legendArea.row.spacing,
             r |-> legendArea.circle.radius]>>
     ELSE IF shapeName = "rect"
     THEN <<[kind |-> "legendShape", tag |-> "rect", parent |-> "legend",
             class |-> shapeClass,
             x |-> Frac(-legendArea.square.width, 2),
             y |-> FracAdd(Frac(-legendArea.square.width, 2),
                           Whole(rowNum * legendArea.row.spacing)),
             width |-> legendArea.square.width,
             height |-> legendArea.square.width]>>
     ELSE <<>>)
    \o <<[kind |-> "legendText", tag |-> "text", parent |-> "legend",
          x |-> legendArea.textOffset.x,
          y |-> legendArea.textOffset.y + rowNum * legendArea.row.spacing,
          text |-> textString]>>

\* appendLegend of the map chart
appendLegendMap(plot) ==
    LET legendArea == [row        |-> [spacing |-> 18],
                       square     |-> [width |-> 10],
                       circle     |-> [radius |-> 5],
                       textOffset |-> [x |-> 10, y |-> 4]]
    IN <<[kind |-> "legendGroup", tag |-> "g", parent |-> "svg",
          class |-> "legend",
          transform |-> <<Whole(20), Frac(8 * plot.svg.height, 10)>>]>>
       \o appendLegendOneRowMap(legendArea, 0, "rect", "eastward", "Eastward route")
       \o appendLegendOneRowMap(legendArea, 1, "rect", "westward", "Westward route")
       \o appendLegendOneRowMap(legendArea, 2, "circle", "",
              "Airport (radius proportional to number of movements)")

\* the continuation draw passes to appendMap, with a slip: the airport
\* circles are drawn before the route arcs.
DrawOverlayCirclesFirst(arr, plot, tw) ==
    LET sc == makeScalesMap(plot)
    IN appendAirportCircles(arr, sc, tw)
       \o appendRouteArcs(arr, sc)
       \o appendChartTitle(plot)
       \o appendLegendMap(plot)

\* the continuation draw passes to appendMap: what it appends, in order
DrawOverlay(arr, plot, tw) ==
    LET sc == makeScalesMap(plot)
    IN appendRouteArcs(arr, sc)
       \o appendAirportCircles(arr, sc, tw)
       \o appendChartTitle(plot)
       \o appendLegendMap(plot)

-----------------------------------------------------------------------------
(* Inputs of the rate chart's functions.                                   *)

\* strictly increasing sequences of n days out of 1..MaxDate
RECURSIVE IncreasingDates(_, _)
IncreasingDates(n, lo) ==
    IF n = 0 THEN {<<>>}
    ELSE UNION {{<<d>> \o rest : rest \in IncreasingDates(n - 1, d + 1)} :
                d \in lo..MaxDate}

\* the rows of a dataset with the given dates, flags and rates
Rows(dates, flags, rates) ==
    [k \in 1..Len(dates) |->
        [date |-> DateOf(dates[k]), rate |-> rates[k], isRecession |-> flags[k]]]

\* inputs of collapseRecessionPeriods: every flag pattern over every
\* strictly increasing date sequence of length 0..MaxLen (the rate plays no
\* part in the function and is held at 0.0234)
CollapseInputs ==
    UNION {{Rows(dates, flags, [k \in 1..n |-> 234]) :
                dates \in IncreasingDates(n, 1), flags \in [1..n -> BOOLEAN]} :
           n \in 0..MaxLen}

-----------------------------------------------------------------------------
(* Specification of collapseRecessionPeriods applied to an input.          *)

\* the variables of the functions a specification does not exercise
CollapseIdle == periods = <<>> /\ cpc = "idle"

ScalesIdle == scales = Undefined /\ spc = "idle"

LegendIdle ==
    /\ maxTextWidth = 0 /\ numRows = 0 /\ area = Undefined /\ lpc = "idle"
    /\ legendRows = <<>>

RateIdle ==
    rpc = "idle" /\ csvReq = "none" /\ rdom = <<>> /\ rerr = Undefined

AxisIdle == yscale = Undefined /\ yticks = <<>> /\ ypc = "idle"

MapIdle ==
    /\ mpc = "idle"
    /\ jsonReq = "none"
    /\ xmlReq = "none"
    /\ airports = Undefined
    /\ dom = <<>>

InitCollapse ==
    /\ data \in CollapseInputs
    /\ periods = <<>>
    /\ cpc = "ready"
    /\ ScalesIdle
    /\ LegendIdle
    /\ MapIdle
    /\ RateIdle
    /\ AxisIdle

CollapseRecessionPeriods ==
    /\ cpc = "ready"
    /\ periods' = collapseRecessionPeriods(data)
    /\ cpc' = "done"
    /\ UNCHANGED <<data, scaleVars, legendVars, mapVars, rateVars, axisVars>>

NextCollapse == CollapseRecessionPeriods

SpecCollapse == InitCollapse /\ [][NextCollapse]_vars

-----------------------------------------------------------------------------
(* Specification of makeScales applied to an input.                        *)

\* the rates the inputs of makeScales are drawn from: below zero, on a whole
\* percent, and between two whole percents
RateValues == {-25, 200, 234}

\* inputs of makeScales: every choice of rates over every strictly
\* increasing date sequence of length 0..MaxLen (the flag plays no part)
ScaleInputs ==
    UNION {{Rows(dates, [k \in 1..n |-> FALSE], rates) :
                dates \in IncreasingDates(n, 1), rates \in [1..n -> RateValues]} :
           n \in 0..MaxLen}

InitScales ==
    /\ data \in ScaleInputs
    /\ scales = Undefined
    /\ spc = "ready"
    /\ CollapseIdle
    /\ LegendIdle
    /\ MapIdle
    /\ RateIdle
    /\ AxisIdle

\* makeScales(data, plot) returns
MakeScales ==
    /\ spc = "ready"
    /\ Len(data) > 0
    /\ scales' = makeScalesRate(data, getPlotAreaRate)
    /\ spc' = "done"
    /\ UNCHANGED <<data, collapseVars, legendVars, mapVars, rateVars, axisVars>>

\* makeScales(data, plot) on an empty array: data[0] is undefined and
\* reading its date throws a TypeError
MakeScalesThrows ==
    /\ spc = "ready"
    /\ Len(data) = 0
    /\ spc' = "thrown"
    /\ UNCHANGED <<data, scales, collapseVars, legendVars, mapVars, rateVars,
                   axisVars>>

NextScales == MakeScales \/ MakeScalesThrows

SpecScales == InitScales /\ [][NextScales]_vars

-----------------------------------------------------------------------------
(* Specification of calcLegendArea applied to an input.                    *)

InitLegend ==
    /\ maxTextWidth \in 0..MaxTextWidth
    /\ numRows \in 0..MaxRows
    /\ area = Undefined
    /\ lpc = "ready"
    /\ legendRows = <<>>
    /\ data = <<>>
    /\ CollapseIdle
    /\ ScalesIdle
    /\ MapIdle
    /\ RateIdle
    /\ AxisIdle

CalcLegendArea ==
    /\ lpc = "ready"
    /\ area' = calcLegendArea(maxTextWidth, numRows)
    /\ lpc' = "done"
    /\ UNCHANGED <<maxTextWidth, numRows, legendRows, data, collapseVars,
                   scaleVars, mapVars, rateVars, axisVars>>

\* appendLegend's calls of appendLegendOneRow, for the rows 0..numRows-1 of
\* the area: the chart's own two rows are the waveform's and the
\* recession's; a further row repeats the latter's class and text, which
\* play no part in where a row is placed.
RECURSIVE LegendRowsFrom(_, _, _)
LegendRowsFrom(a, rowNum, rows) ==
    IF ~(rowNum < rows) THEN <<>>
    ELSE (IF rowNum = 0
          THEN appendLegendOneRowRate(a, rowNum, "legend-waveform",
                                      "10 Year Treasury Rate")
          ELSE appendLegendOneRowRate(a, rowNum, "legend-recession",
                                      "Recession"))
         \o LegendRowsFrom(a, rowNum + 1, rows)

AppendLegendRows ==
    /\ lpc = "done"
    /\ legendRows' = LegendRowsFrom(area, 0, numRows)
    /\ lpc' = "rows"
    /\ UNCHANGED <<maxTextWidth, numRows, area, data, collapseVars,
                   scaleVars, mapVars, rateVars, axisVars>>

NextLegend == CalcLegendArea \/ AppendLegendRows

SpecLegend == InitLegend /\ [][NextLegend]_vars

-----------------------------------------------------------------------------
(* Specification of the y axis: makeScales' y domain and appendYAxis' tick *)
(* values, in the doubles the browser computes them in.                    *)

\* the rates of the inputs, as the CSV gives them in 1/100 percent: below
\* zero, whole percents, between two whole percents, and a large one
AxisRates == {-25, 100, 200, 234, 400, 1600}

\* inputs: every choice of rates for 1..MaxAxisRows rows on successive days
\* (dates and flags play no part in the y axis)
AxisInputs ==
    UNION {{Rows([k \in 1..n |-> k], [k \in 1..n |-> FALSE], rates) :
                rates \in [1..n -> AxisRates]} :
           n \in 1..MaxAxisRows}

InitYAxis ==
    /\ data \in AxisInputs
    /\ yscale = Undefined
    /\ yticks = <<>>
    /\ ypc = "ready"
    /\ CollapseIdle
    /\ ScalesIdle
    /\ LegendIdle
    /\ MapIdle
    /\ RateIdle

\* makeScales(data, plot): the domain given to scales.y
MakeScalesY ==
    /\ ypc = "ready"
    /\ yscale' = makeScalesYDomain(data)
    /\ ypc' = "scaled"
    /\ UNCHANGED <<data, yticks, collapseVars, scaleVars, legendVars, mapVars,
                   rateVars>>

\* appendYAxis(paddingGroup, scales, plot): the tickValues given to the axis
AppendYAxis ==
    /\ ypc = "scaled"
    /\ yticks' = tickValues(yscale)
    /\ ypc' = "done"
    /\ UNCHANGED <<data, yscale, collapseVars, scaleVars, legendVars, mapVars,
                   rateVars>>

NextYAxis == MakeScalesY \/ AppendYAxis

SpecYAxis == InitYAxis /\ [][NextYAxis]_vars

-----------------------------------------------------------------------------
(* Specification of the map chart: draw and its two callbacks.             *)

\* Airports a dataset is made of (longitude and latitude in 1e-7 degree).
\* "ZZZ" is a made-up airport on the meridian of ORD, so that two airports
\* of a dataset can project to the same x at different y.
Airports ==
    {[code |-> "LAX", longitude |-> -1184085000, latitude |-> 339416000,
      movements2015 |-> 655564],
     [code |-> "ORD", longitude |-> -879048000, latitude |-> 419742000,
      movements2015 |-> 875136],
     [code |-> "ATL", longitude |-> -844277000, latitude |-> 336407000,
      movements2015 |-> 882497],
     [code |-> "ZZZ", longitude |-> -879048000, latitude |-> 300000000,
      movements2015 |-> 253046]}

AirportCodes == {a.code : a \in Airports}

\* the datasets us-map-overlay.json may hold: arrays of 0..MaxAirports airports
AirportDatasets == UNION {[1..n -> Airports] : n \in 0..MaxAirports}

\* what getComputedTextLength may report for an airport code, in pixels
TextWidths == {24, 27}

\* the base-map documents: the root element's width and height attributes
MapDocuments == {[width |-> 959, height |-> 593]}

Init ==
    /\ mpc = "start"
    /\ jsonReq = "none"
    /\ xmlReq = "none"
    /\ airports = Undefined
    /\ dom = <<>>
    /\ data = <<>>
    /\ CollapseIdle
    /\ ScalesIdle
    /\ LegendIdle
    /\ RateIdle
    /\ AxisIdle

otherVars == <<data, collapseVars, scaleVars, legendVars, rateVars, axisVars>>

\* window.onload: draw appends the svg and its padding group and getData
\* sends the request for the airport data
Draw ==
    /\ mpc = "start"
    /\ dom' = dom \o setupSvgAndPaddingGroup(getPlotAreaMap)
    /\ jsonReq' = "pending"
    /\ mpc' = "awaitData"
    /\ UNCHANGED <<xmlReq, airports, otherVars>>

\* the airport data arrives: the getData callback runs draw's continuation,
\* which calls appendMap, which sends the request for the base map
JsonLoaded ==
    /\ jsonReq = "pending"
    /\ \E d \in AirportDatasets : airports' = JsArray(d)
    /\ jsonReq' = "loaded"
    /\ xmlReq' = "pending"
    /\ mpc' = "awaitMap"
    /\ UNCHANGED <<dom, otherVars>>

\* the airport request fails: d3 calls a one-parameter callback with null in
\* place of the data, and the continuation runs as above
JsonFailed ==
    /\ jsonReq = "pending"
    /\ airports' = Null
    /\ jsonReq' = "failed"
    /\ xmlReq' = "pending"
    /\ mpc' = "awaitMap"
    /\ UNCHANGED <<dom, otherVars>>

\* the base map arrives and there is airport data: the map is appended and
\* next(svgSelection) draws the overlay
XmlLoaded ==
    /\ xmlReq = "pending"
    /\ airports # Null
    /\ \E doc \in MapDocuments : \E tw \in [AirportCodes -> TextWidths] :
          dom' = dom \o <<MapElement(doc, getPlotAreaMap)>>
                     \o DrawOverlay(airports.items, getPlotAreaMap, tw)
    /\ xmlReq' = "loaded"
    /\ mpc' = "drawn"
    /\ UNCHANGED <<jsonReq, airports, otherVars>>

\* the base map arrives and the data is null: the map and the routes group
\* are appended, then .data(null).enter() throws in appendRouteArcs
XmlLoadedNoData ==
    /\ xmlReq = "pending"
    /\ airports = Null
    /\ \E doc \in MapDocuments :
          dom' = dom \o <<MapElement(doc, getPlotAreaMap), RoutesGroup>>
    /\ xmlReq' = "loaded"
    /\ mpc' = "thrown"
    /\ UNCHANGED <<jsonReq, airports, otherVars>>

\* the failing base-map request with a slip: the error is not thrown and
\* next() is called all the same, without a map.
XmlFailedCallsNext ==
    /\ xmlReq = "pending"
    /\ xmlReq' = "failed"
    /\ IF airports = Null
       THEN dom' = dom \o <<RoutesGroup>> /\ mpc' = "thrown"
       ELSE /\ \E tw \in [AirportCodes -> TextWidths] :
                  dom' = dom \o DrawOverlay(airports.items, getPlotAreaMap, tw)
            /\ mpc' = "drawn"
    /\ UNCHANGED <<jsonReq, airports, otherVars>>

\* the base-map request fails: the callback throws the error
XmlFailed ==
    /\ xmlReq = "pending"
    /\ xmlReq' = "failed"
    /\ mpc' = "thrown"
    /\ UNCHANGED <<dom, jsonReq, airports, otherVars>>

Next ==
    \/ Draw
    \/ JsonLoaded
    \/ JsonFailed
    \/ XmlLoaded
    \/ XmlLoadedNoData
    \/ XmlFailed

Spec == Init /\ [][Next]_vars

-----------------------------------------------------------------------------
(* Rate chart: strings and extractTranslation.                             *)
(*                                                                         *)
(* A string is the sequence of its characters, so that the regular         *)
(* expression and the unary + work on what they work on in the browser.    *)

\* a primitive string with the given characters
JsText(chars) == [type |-> "string", chars |-> chars]

TranslateOpen ==
    <<"t", "r", "a", "n", "s", "l", "a", "t", "e", "(">>

ParseErrorPrefix ==
    <<"D", "o", "n", "'", "t", " ", "k", "n", "o", "w", " ", "h", "o", "w",
      " ", "t", "o", " ", "p", "a", "r", "s", "e", " ", "t", "r", "a", "n",
      "s", "f", "o", "r", "m", ":", " ", "'">>

DecimalDigits == <<"0", "1", "2", "3", "4", "5", "6", "7", "8", "9">>

IsDigit(c) == \E n \in 1..10 : DecimalDigits[n] = c

DigitValue(c) == (CHOOSE n \in 1..10 : DecimalDigits[n] = c) - 1

IsDigits(s) == s # <<>> /\ \A k \in 1..Len(s) : IsDigit(s[k])

RECURSIVE DigitsValue(_)
DigitsValue(s) ==
    IF s = <<>> THEN 0
    ELSE 10 * DigitsValue(SubSeq(s, 1, Len(s) - 1)) + DigitValue(s[Len(s)])

\* the decimal digits of a natural number (Number to String)
RECURSIVE DigitsOf(_)
DigitsOf(n) ==
    IF n < 10 THEN <<DecimalDigits[n + 1]>>
    ELSE DigitsOf(n \div 10) \o <<DecimalDigits[(n % 10) + 1]>>

\* the number NaN
NaN == [type |-> "NaN"]

\* s without leading and trailing blanks
RECURSIVE StripBlanks(_)
StripBlanks(s) ==
    IF s = <<>> THEN s
    ELSE IF s[1] = " " THEN StripBlanks(Tail(s))
    ELSE IF s[Len(s)] = " " THEN StripBlanks(SubSeq(s, 1, Len(s) - 1))
    ELSE s

\* the value of an unsigned decimal literal: digits, digits.digits, digits.
\* or .digits; anything else is NaN
UnsignedToNumber(t) ==
    IF \E p \in 1..Len(t) : t[p] = "."
    THEN LET p  == CHOOSE q \in 1..Len(t) :
                       t[q] = "." /\ \A r \in 1..(q - 1) : t[r] # "."
             ip == SubSeq(t, 1, p - 1)
             fp == SubSeq(t, p + 1, Len(t))
         IN IF /\ ip = <<>> \/ IsDigits(ip)
               /\ fp = <<>> \/ IsDigits(fp)
               /\ ~(ip = <<>> /\ fp = <<>>)
            THEN Frac(DigitsValue(ip) * 10^Len(fp) + DigitsValue(fp), 10^Len(fp))
            ELSE NaN
    ELSE IF IsDigits(t) THEN Whole(DigitsValue(t)) ELSE NaN

\* the unary + applied to a string (decimal notation only: the inputs hold
\* no exponent, hexadecimal or Infinity)
ToNumber(s) ==
    LET t == StripBlanks(s)
    IN IF t = <<>> THEN Whole(0)
       ELSE IF t[1] = "-"
       THEN LET v == UnsignedToNumber(Tail(t))
            IN IF v = NaN THEN NaN ELSE Frac(-v.num, v.den)
       ELSE IF t[1] = "+" THEN UnsignedToNumber(Tail(t))
       ELSE UnsignedToNumber(t)

\* transform.match(/^translate\((.*),(.*)\)$/): both groups are greedy, so
\* the first runs up to the last comma before the closing parenthesis. The
\* strings hold no line terminator, which `.` would not match.
TranslateMatch(s) ==
    LET n == Len(TranslateOpen)
        commas == {p \in (n + 1)..(Len(s) - 1) : s[p] = ","}
    IN IF /\ Len(s) >= n + 2
          /\ SubSeq(s, 1, n) = TranslateOpen
          /\ s[Len(s)] = ")"
          /\ commas # {}
       THEN LET comma == CHOOSE p \in commas : \A q \in commas : q <= p
            IN [matched |-> TRUE,
                groups  |-> <<s, SubSeq(s, n + 1, comma - 1),
                              SubSeq(s, comma + 1, Len(s) - 1)>>]
       ELSE [matched |-> FALSE, groups |-> <<>>]

\* extractTranslation(selection), for the transform attribute of the
\* selection's element (Null when the element has none, in which case
\* transform.match is a TypeError, whose message is the browser's)
extractTranslation(transform) ==
    IF transform = Null
    THEN [threw |-> TRUE, error |-> [name |-> "TypeError", message |-> <<>>]]
    ELSE LET m == TranslateMatch(transform.chars)
         IN IF ~m.matched \/ Len(m.groups) < 3
            THEN [threw |-> TRUE,
                  error |-> [name |-> "Error",
                             message |-> ParseErrorPrefix \o transform.chars
                                             \o <<"'">>]]
            ELSE [threw |-> FALSE,
                  value |-> [x |-> ToNumber(m.groups[2]),
                             y |-> ToNumber(m.groups[3])]]

-----------------------------------------------------------------------------
(* Rate chart: the elements the drawing functions append. A run is the     *)
(* record [dom, err] of the elements appended and the error thrown so far  *)
(* (Undefined while none is).                                              *)

appendBackground(plot) ==
    <<[kind |-> "background", tag |-> "rect", parent |-> "paddingGroup",
       width |-> plot.range.x, height |-> plot.range.y,
       class |-> "background"]>>

\* the tick elements d3's axis makes, one per transform it is given
AxisTicks(axis, transforms) ==
    [k \in 1..Len(transforms) |->
        [kind |-> "tick", tag |-> "g", parent |-> axis, class |-> "tick",
         index |-> k - 1, transform |-> transforms[k]]]

\* appendXAxis: the axis group and, by .call(xAxis), its ticks
appendXAxis(plot, transforms) ==
    <<[kind |-> "xAxis", tag |-> "g", parent |-> "paddingGroup",
       transform |-> <<0, plot.range.y>>, class |-> "xAxis"]>>
    \o AxisTicks("xAxis", transforms)

\* appendYAxis: the axis group and its numTicks ticks (for their values see
\* tickValues)
appendYAxis(plot, transforms) ==
    <<[kind |-> "yAxis", tag |-> "g", parent |-> "paddingGroup",
       transform |-> <<plot.range.x, 0>>, class |-> "yAxis"]>>
    \o AxisTicks("yAxis", transforms)

\* the ticks of an axis among the elements, in document order
SelectTicks(elements, axis) ==
    SelectSeq(elements, LAMBDA el : el.kind = "tick" /\ el.parent = axis)

\* the body of .each(function(d, i) {...}) over the y ticks from the k-th on
RECURSIVE HorizontalGridLinesFrom(_, _, _, _)
HorizontalGridLinesFrom(run, ticks, k, plot) ==
    IF k > Len(ticks) THEN run
    ELSE LET t == extractTranslation(ticks[k].transform)
         IN IF t.threw THEN [dom |-> run.dom, err |-> t.error]
            ELSE HorizontalGridLinesFrom(
                     [dom |-> Append(run.dom,
                                 [kind |-> "gridLine", tag |-> "line",
                                  parent |-> "grid",
                                  x1 |-> Whole(0), y1 |-> t.value.y,
                                  x2 |-> Whole(plot.range.x), y2 |-> t.value.y]),
                      err |-> run.err],
                     ticks, k + 1, plot)

appendBackgroundHorizontalGridLines(run, plot) ==
    HorizontalGridLinesFrom(
        [dom |-> Append(run.dom,
                    [kind |-> "grid", tag |-> "g", parent |-> "paddingGroup",
                     class |-> "grid"]),
         err |-> run.err],
        SelectTicks(run.dom, "yAxis"), 1, plot)

\* the body of .each over the x ticks from the k-th on; i is k - 1
RECURSIVE VerticalGridLinesFrom(_, _, _, _)
VerticalGridLinesFrom(run, ticks, k, plot) ==
    IF k > Len(ticks) THEN run
    ELSE IF ~(k - 1 > 0) THEN VerticalGridLinesFrom(run, ticks, k + 1, plot)
    ELSE LET t == extractTranslation(ticks[k].transform)
         IN IF t.threw THEN [dom |-> run.dom, err |-> t.error]
            ELSE VerticalGridLinesFrom(
                     [dom |-> Append(run.dom,
                                 [kind |-> "gridLine", tag |-> "line",
                                  parent |-> "grid",
                                  x1 |-> t.value.x, y1 |-> Whole(0),
                                  x2 |-> t.value.x, y2 |-> Whole(plot.range.y)]),
                      err |-> run.err],
                     ticks, k + 1, plot)

appendBackgroundVerticalGridLines(run, plot) ==
    VerticalGridLinesFrom(run, SelectTicks(run.dom, "xAxis"), 1, plot)

appendRecessionBars(arr, sc, plot) ==
    LET recessionPeriods == collapseRecessionPeriods(arr)
    IN [k \in 1..Len(recessionPeriods) |->
           LET d == recessionPeriods[k]
               x0 == ScaleApply(sc.x, d.startDate.time)
               x1 == ScaleApply(sc.x, d.endDate.time)
           IN [kind |-> "recession", tag |-> "rect", parent |-> "paddingGroup",
               class |-> "recession",
               x |-> x0, y |-> 0,
               width |-> FracAdd(x1, Frac(-x0.num, x0.den)),
               height |-> plot.range.y]]

appendBackgroundBorderLines(plot) ==
    LET offset == Frac(1, 2)
        right == Whole(plot.svg.width - plot.padding.left)
        bottom == FracAdd(Whole(plot.range.y), offset)
    IN <<[kind |-> "backgroundBorder", tag |-> "path",
          parent |-> "paddingGroup",
          d |-> <<<<right, offset>>, <<offset, offset>>,
                  <<offset, bottom>>, <<right, bottom>>>>,
          class |-> "background-border"]>>

appendRateWaveform(arr, sc) ==
    <<[kind |-> "waveformGroup", tag |-> "g", parent |-> "paddingGroup",
       class |-> "waveform"],
      [kind |-> "waveform", tag |-> "path", parent |-> "waveform",
       d |-> [k \in 1..Len(arr) |->
                 <<ScaleApply(sc.x, arr[k].date.time),
                   ScaleApply(sc.y, arr[k].rate)>>]]>>

\* chartUtils.calcTextWidth: the hidden text element it appends (what it
\* returns is the browser's measure, an input)
calcTextWidth(group, textString, textClass) ==
    <<[kind |-> "hiddenText", tag |-> "text", parent |-> group,
       class |-> textClass, x |-> -99999, text |-> textString]>>

\* appendLegend of the rate chart, given the measured width of the
\* waveform's label
appendLegendRate(plot, waveformTextWidth) ==
    LET waveformTextString == "10 Year Treasury Rate"
        a == calcLegendArea(waveformTextWidth, 2)
    IN <<[kind |-> "legendGroup", tag |-> "g", parent |-> "paddingGroup",
          class |-> "legend",
          transform |-> <<plot.range.x - a.plate.width - a.plate.margin,
                          a.plate.margin>>]>>
       \o calcTextWidth("legend", waveformTextString, "")
       \o <<[kind |-> "legendPlate", tag |-> "rect", parent |-> "legend",
             class |-> "legend-plate",
             width |-> a.plate.width, height |-> a.plate.height]>>
       \o appendLegendOneRowRate(a, 0, "legend-waveform", waveformTextString)
       \o appendLegendOneRowRate(a, 1, "legend-recession", "Recession")

\* the callback draw hands to getData, from makeScales on, for rows that
\* makeScales accepts: the steps run in order and a thrown error ends them
DrawRateChart(arr, plot, xTransforms, yTransforms, waveformTextWidth) ==
    LET sc == makeScalesRate(arr, plot)
        axes == [dom |-> setupSvgAndPaddingGroup(plot)
                             \o appendBackground(plot)
                             \o appendXAxis(plot, xTransforms)
                             \o appendYAxis(plot, yTransforms),
                 err |-> Undefined]
        horizontal == appendBackgroundHorizontalGridLines(axes, plot)
        vertical == IF horizontal.err # Undefined THEN horizontal
                    ELSE appendBackgroundVerticalGridLines(horizontal, plot)
    IN IF vertical.err # Undefined THEN vertical
       ELSE [dom |-> vertical.dom
                        \o appendRecessionBars(arr, sc, plot)
                        \o appendBackgroundBorderLines(plot)
                        \o appendRateWaveform(arr, sc)
                        \o appendLegendRate(plot, waveformTextWidth),
             err |-> Undefined]

-----------------------------------------------------------------------------
(* Specification of the rate chart: draw and the callback of getData.      *)

\* the rows rate-data.csv may give: 0..MaxChartRows rows on successive days,
\* flagged or not, all at the rate 0.0234
ChartInputs ==
    UNION {{Rows([k \in 1..n |-> k], flags, [k \in 1..n |-> 234]) :
                flags \in [1..n -> BOOLEAN]} :
           n \in 0..MaxChartRows}

\* The ticks are made by d3's axis, whose code is not part of the sources:
\* the transform it gives a tick is an input. A regular tick carries
\* 'translate(0,<y>)' on the y axis and 'translate(<x>,0)' on the x axis,
\* with the decimal numeral of a pixel position offset by 0.5.
RegularYTransform(k) ==
    JsText(TranslateOpen \o <<"0", ",">> \o DigitsOf(60 * (k - 1))
               \o <<".", "5", ")">>)

RegularXTransform(k) ==
    JsText(TranslateOpen \o DigitsOf(200 * (k - 1))
               \o <<".", "5", ",", "0", ")">>)

\* what else a tick may carry: no transform attribute at all, and
\* transforms SVG allows that are not a single 'translate(x,y)'
TranslateNoComma ==
    <<"t", "r", "a", "n", "s", "l", "a", "t", "e", "(", "3", "0", " ", "4",
      "0", ")">>

TranslateThenRotate ==
    <<"t", "r", "a", "n", "s", "l", "a", "t", "e", "(", "1", ",", "2", ")",
      " ", "r", "o", "t", "a", "t", "e", "(", "3", ")">>

ScaleOnly == <<"s", "c", "a", "l", "e", "(", "2", ")">>

OddTransforms ==
    {Null, JsText(TranslateNoComma), JsText(TranslateThenRotate),
     JsText(ScaleOnly)}

\* at most one tick of the chart is odd
OddTicks(nx) ==
    {[axis |-> "none", index |-> 0, transform |-> Null]}
    \cup {[axis |-> "yAxis", index |-> k, transform |-> t] :
              k \in 1..numTicks, t \in OddTransforms}
    \cup {[axis |-> "xAxis", index |-> k, transform |-> t] :
              k \in 1..nx, t \in OddTransforms}

XTransforms(nx, odd) ==
    [k \in 1..nx |-> IF odd.axis = "xAxis" /\ odd.index = k
                     THEN odd.transform ELSE RegularXTransform(k)]

YTransforms(odd) ==
    [k \in 1..numTicks |-> IF odd.axis = "yAxis" /\ odd.index = k
                           THEN odd.transform ELSE RegularYTransform(k)]

InitRate ==
    /\ rpc = "start"
    /\ csvReq = "none"
    /\ rdom = <<>>
    /\ rerr = Undefined
    /\ data = Undefined
    /\ CollapseIdle
    /\ ScalesIdle
    /\ LegendIdle
    /\ MapIdle
    /\ AxisIdle

rateOtherVars == <<collapseVars, scaleVars, legendVars, mapVars, axisVars>>

\* window.onload: draw calls getData, which sends the request
DrawRate ==
    /\ rpc = "start"
    /\ csvReq' = "pending"
    /\ rpc' = "awaitData"
    /\ UNCHANGED <<data, rdom, rerr, rateOtherVars>>

\* the rows arrive and the callback draws the chart, as far as it gets
CsvLoaded ==
    /\ csvReq = "pending"
    /\ \E arr \in ChartInputs : \E nx \in 0..MaxXTicks :
       \E odd \in OddTicks(nx) : \E tw \in TextWidths :
          /\ Len(arr) > 0
          /\ data' = JsArray(arr)
          /\ LET run == DrawRateChart(arr, getPlotAreaRate, XTransforms(nx, odd),
                                      YTransforms(odd), tw)
             IN /\ rdom' = run.dom
                /\ rerr' = run.err
                /\ rpc' = IF run.err = Undefined THEN "drawn" ELSE "thrown"
    /\ csvReq' = "loaded"
    /\ UNCHANGED rateOtherVars

\* no row arrives: data[0] is undefined and makeScales throws a TypeError
\* after the svg and its padding group were set up
CsvLoadedEmpty ==
    /\ csvReq = "pending"
    /\ data' = JsArray(<<>>)
    /\ rdom' = setupSvgAndPaddingGroup(getPlotAreaRate)
    /\ rerr' = [name |-> "TypeError", message |-> <<>>]
    /\ rpc' = "thrown"
    /\ csvReq' = "loaded"
    /\ UNCHANGED rateOtherVars

\* the request fails: d3 calls the one-parameter callback with null, and
\* makeScales throws a TypeError on data[0]
CsvFailed ==
    /\ csvReq = "pending"
    /\ data' = Null
    /\ rdom' = setupSvgAndPaddingGroup(getPlotAreaRate)
    /\ rerr' = [name |-> "TypeError", message |-> <<>>]
    /\ rpc' = "thrown"
    /\ csvReq' = "failed"
    /\ UNCHANGED rateOtherVars

NextRate ==
    \/ DrawRate
    \/ CsvLoaded
    \/ CsvLoadedEmpty
    \/ CsvFailed

SpecRate == InitRate /\ [][NextRate]_vars

-----------------------------------------------------------------------------
(* What the input looks like, read off the flags alone (indices 1..n).      *)

Flagged(k) == data[k].isRecession

\* first index of each maximal run of consecutive flagged records
RunStarts ==
    {k \in 1..Len(data) : Flagged(k) /\ (k = 1 \/ ~Flagged(k - 1))}

\* the runs that are followed by an unflagged record
ClosedRunStarts ==
    {k \in RunStarts : \E j \in (k + 1)..Len(data) : ~Flagged(j)}

\* index of the first unflagged record after the run starting at k
FirstUnflaggedAfter(k) ==
    CHOOSE j \in (k + 1)..Len(data) :
        ~Flagged(j) /\ \A m \in k..(j - 1) : Flagged(m)

\* the m-th closed run, in input order
NthClosedRun(m) ==
    CHOOSE k \in ClosedRunStarts :
        Cardinality({k2 \in ClosedRunStarts : k2 <= k}) = m

\* the periods whose startDate is the first date of a closed run
PeriodsOfClosedRuns ==
    SelectSeq(periods,
              LAMBDA p : \E k \in ClosedRunStarts : p.startDate = data[k].date)

\* first index of the run that reaches the final record
TrailingRunStart ==
    CHOOSE k \in RunStarts : \A m \in k..Len(data) : Flagged(m)

\* C1: every maximal run of flagged records that is followed by an unflagged
\* record yields exactly one period, from the date of the run's first record
\* to the date of the first unflagged record after it, and these periods come
\* in the order of the runs.
C1_ClosedRunsYieldPeriods ==
    cpc = "done" =>
        /\ Len(PeriodsOfClosedRuns) = Cardinality(ClosedRunStarts)
        /\ \A m \in 1..Len(PeriodsOfClosedRuns) :
              PeriodsOfClosedRuns[m] =
                  [startDate |-> data[NthClosedRun(m)].date,
                   endDate   |-> data[FirstUnflaggedAfter(NthClosedRun(m))].date]

\* two closed runs, the first longer than one record, have been collapsed
C1_Witness ==
    /\ cpc = "done"
    /\ Cardinality(ClosedRunStarts) = 2
    /\ \E k \in ClosedRunStarts : FirstUnflaggedAfter(k) > k + 1
    /\ Len(periods) = 2

\* C2: when the final record is flagged, the last period covers the trailing
\* run: it starts at the run's first date and ends at the final record's date.
C2_TrailingRunIsEmitted ==
    (cpc = "done" /\ Len(data) > 0 /\ Flagged(Len(data))) =>
        /\ Len(periods) > 0
        /\ periods[Len(periods)] =
              [startDate |-> data[TrailingRunStart].date,
               endDate   |-> data[Len(data)].date]

\* C3: the number of periods equals the number of maximal runs of flagged
\* records.
C3_OnePeriodPerRun ==
    cpc = "done" => Len(periods) = Cardinality(RunStarts)

\* the worked example: days D1..D5 with flags F,T,T,F,T
ExampleData ==
    Rows(<<1, 2, 3, 4, 5>>, <<FALSE, TRUE, TRUE, FALSE, TRUE>>,
         [k \in 1..5 |-> 234])

C5_NoFlagNoPeriod ==
    (cpc = "done" /\ \A k \in 1..Len(data) : ~Flagged(k)) => periods = <<>>

\* a non-empty input without a flagged record has been collapsed
C5_Witness ==
    /\ cpc = "done"
    /\ Len(data) >= 2
    /\ \A k \in 1..Len(data) : ~Flagged(k)
    /\ periods = <<>>

-----------------------------------------------------------------------------
(* calcLegendArea                                                           *)

\* C8: plate.height is (numRows+1)*square.margin + numRows*square.width, and
\* plate.width grows strictly with maxTextWidth and is the same for every
\* numRows.
C8_LegendPlateSize ==
    lpc = "done" =>
        /\ area.plate.height =
              (numRows + 1) * area.square.margin + numRows * area.square.width
        /\ \A w \in 0..MaxTextWidth : \A n \in 0..MaxRows :
              /\ maxTextWidth < w =>
                    area.plate.width < calcLegendArea(w, n).plate.width
              /\ maxTextWidth = w =>
                    area.plate.width = calcLegendArea(w, n).plate.width

\* an area has been computed for two rows and a text that is neither the
\* narrowest nor the widest
C8_Witness ==
    /\ lpc = "done"
    /\ numRows = 2
    /\ maxTextWidth > 0 /\ maxTextWidth < MaxTextWidth
    /\ area.plate.height = 35

-----------------------------------------------------------------------------
(* makeScales of the rate chart                                             *)

\* C9: every record of a non-empty dataset maps strictly inside the plot
\* rectangle: 0 < scales.x(date) < plot.range.x, 0 < scales.y(rate) < plot.range.y.
C9_SamplesInsidePlot ==
    spc = "done" =>
      /\ scales.x.domain =
            <<data[1].date.time - 14, data[Len(data)].date.time + 7>>
      /\ \A k \in 1..Len(data) :
            \* the y domain starts 0.005 below a whole percent that is at most
            \* every rate, and ends 0.005 above one that is at least every rate
            /\ (scales.y.domain[1] + 50) % 100 = 0
            /\ (scales.y.domain[2] - 50) % 100 = 0
            /\ scales.y.domain[1] + 50 <= data[k].rate
            /\ data[k].rate <= scales.y.domain[2] - 50
      /\ \E k \in 1..Len(data) : data[k].rate < scales.y.domain[1] + 50 + 100
      /\ \E k \in 1..Len(data) : data[k].rate > scales.y.domain[2] - 50 - 100
      /\ \A k \in 1..Len(data) :
            /\ FracLess(Whole(0), ScaleApply(scales.x, data[k].date.time))
            /\ FracLess(ScaleApply(scales.x, data[k].date.time),
                        Whole(getPlotAreaRate.range.x))
            /\ FracLess(Whole(0), ScaleApply(scales.y, data[k].rate))
            /\ FracLess(ScaleApply(scales.y, data[k].rate),
                        Whole(getPlotAreaRate.range.y))

\* scales have been made for a dataset of several days whose lowest and
\* highest rate are whole percents (where only the headroom keeps them off
\* the plot's edge)
C9_Witness ==
    /\ spc = "done"
    /\ Len(data) >= 3
    /\ \A k \in 1..Len(data) : data[k].rate = 200
    /\ scales.y.domain = <<150, 250>>

-----------------------------------------------------------------------------
(* Map chart                                                                *)

\* the route arcs appended so far
RouteArcs == {dom[k] : k \in {m \in DOMAIN dom : dom[m].kind = "routeArc"}}

Abs(v) == IF v < 0 THEN -v ELSE v

\* C6 as stated: both radii are |newX - curX| * 1.5, hence never negative,
\* and 0 exactly when the two x are equal.
C6_RadiusIsDistance ==
    \A arc \in RouteArcs :
        LET curX == arc.d.M[1]
            newX == arc.d.to[1]
        IN /\ arc.d.rx = arc.d.ry
           /\ 2 * arc.d.rx = 3 * Abs(newX - curX)
           /\ arc.d.rx >= 0
           /\ (arc.d.rx = 0 <=> newX = curX)

\* C6, amended: both radii are equal and are the signed (newX - curX) * 1.5:
\* their size is |newX - curX| * 1.5, they are negative exactly when the
\* arrival projects west of the departure, and 0 exactly when the two x are
\* equal.
C6_RadiusIsSignedDistance ==
    \A arc \in RouteArcs :
        LET curX == arc.d.M[1]
            newX == arc.d.to[1]
        IN /\ arc.d.rx = arc.d.ry
           /\ 2 * arc.d.rx = 3 * (newX - curX)
           /\ 2 * Abs(arc.d.rx) = 3 * Abs(newX - curX)
           /\ (arc.d.rx < 0 <=> newX < curX)
           /\ (arc.d.rx = 0 <=> newX = curX)

\* arcs have been drawn in both directions and between two airports of
\* equal x
C6_Witness ==
    /\ mpc = "drawn"
    /\ \E arc \in RouteArcs : arc.d.rx < 0
    /\ \E arc \in RouteArcs : arc.d.rx > 0
    /\ \E arc \in RouteArcs : arc.d.rx = 0 /\ arc.d.M[2] # arc.d.to[2]

\* C7: every arc has x-axis-rotation 0, large-arc-flag 0 and sweep-flag 1,
\* and its class is 'eastward' exactly when the departure's x is strictly
\* less than the arrival's x and 'westward' otherwise, whatever the y.
C7_FlagsAndDirection ==
    \A arc \in RouteArcs :
        /\ arc.d.xAxisRotation = 0
        /\ arc.d.largeArcFlag = 0
        /\ arc.d.sweepFlag = 1
        /\ arc.class \in {"eastward", "westward"}
        /\ (arc.class = "eastward" <=> arc.d.M[1] < arc.d.to[1])

\* the drawn arcs include an eastward one going north and one going south,
\* a westward one, and one between airports of equal x
C7_Witness ==
    /\ mpc = "drawn"
    /\ \E arc \in RouteArcs :
          arc.class = "eastward" /\ arc.d.to[2] < arc.d.M[2]
    /\ \E arc \in RouteArcs :
          arc.class = "eastward" /\ arc.d.to[2] > arc.d.M[2]
    /\ \E arc \in RouteArcs :
          arc.class = "westward" /\ arc.d.to[1] < arc.d.M[1]
    /\ \E arc \in RouteArcs :
          arc.class = "westward" /\ arc.d.to[1] = arc.d.M[1]

\* a request has completed, with the data or with an error
Completed(req) == req \in {"loaded", "failed"}

\* where an element stands in the order map, route arcs, airport circles,
\* title, legend (0: the svg and its padding group, appended by draw itself)
OverlayRank(el) ==
    CASE el.kind \in {"svg", "paddingGroup"} -> 0
      [] el.kind = "map" -> 1
      [] el.kind \in {"routesGroup", "routeArc"} -> 2
      [] el.kind \in {"airportGroup", "airportCircle", "hiddenText",
                      "airportPlate", "airportCode"} -> 3
      [] el.kind = "chartTitle" -> 4
      [] el.kind \in {"legendGroup", "legendShape", "legendText"} -> 5

\* how many elements of the given kind have been appended
CountKind(kind) == Cardinality({k \in DOMAIN dom : dom[k].kind = kind})

\* C10: at most one request is outstanding and the base-map request is sent
\* only after the airport request has completed; no route arc, airport
\* circle, title or legend is appended before both have completed; once both
\* have loaded, the map, the route arcs, the airport circles, the title and
\* the legend have been appended, in this order.
C10_FetchesInTurnThenOverlay ==
    /\ ~(jsonReq = "pending" /\ xmlReq = "pending")
    /\ (xmlReq # "none" => Completed(jsonReq))
    /\ \A k \in DOMAIN dom :
          dom[k].kind \in {"routeArc", "airportCircle", "chartTitle",
                           "legendGroup", "legendShape", "legendText"}
              => Completed(jsonReq) /\ Completed(xmlReq)
    /\ (jsonReq = "loaded" /\ xmlReq = "loaded") =>
          /\ \A k \in DOMAIN dom : \A m \in DOMAIN dom :
                k < m => OverlayRank(dom[k]) <= OverlayRank(dom[m])
          /\ CountKind("map") = 1
          /\ CountKind("routeArc") > 0 \/ Len(airports.items) < 2
          /\ CountKind("airportCircle") = Len(airports.items)
          /\ CountKind("chartTitle") = 1
          /\ CountKind("legendGroup") = 1

\* both requests have loaded, for a dataset with arcs and circles to draw
C10_Witness ==
    /\ jsonReq = "loaded"
    /\ xmlReq = "loaded"
    /\ Len(airports.items) >= 2
    /\ CountKind("routeArc") >= 2
    /\ CountKind("legendGroup") = 1

\* C11: when the base-map request has failed, the callback has thrown and
\* nothing was appended by it: the svg and its padding group, appended before
\* the requests, are all there is, and the continuation passed to appendMap,
\* whose first act is to append the routes group, has not run.
C11_MapErrorHaltsRendering ==
    xmlReq = "failed" =>
        /\ mpc = "thrown"
        /\ dom = setupSvgAndPaddingGroup(getPlotAreaMap)
        /\ \A k \in DOMAIN dom : dom[k].kind \in {"svg", "paddingGroup"}
        /\ CountKind("routesGroup") = 0
        /\ ~ ENABLED Next

\* the base-map request has failed after airport data had arrived that
\* would have given arcs and circles to draw
C11_Witness ==
    /\ xmlReq = "failed"
    /\ jsonReq = "loaded"
    /\ Len(airports.items) >= 2
    /\ mpc = "thrown"

\* the route arcs appended so far, in the order they were appended
RouteArcSeq == SelectSeq(dom, LAMBDA el : el.kind = "routeArc")

\* where the arc from airport i to airport j (0-based, i # j) stands when
\* there is one arc per ordered pair, listed by i and then by j
ArcPosition(i, j, n) == i * (n - 1) + (IF j < i THEN j ELSE j - 1) + 1

\* C14: once the overlay is drawn for n airports there are exactly n*(n-1)
\* arcs, none for n <= 1, and each ordered pair (i, j) of distinct indices
\* has its own arc, from the projection of airport i to that of airport j.
C14_OneArcPerOrderedPair ==
    mpc = "drawn" =>
        LET n == Len(airports.items)
            sc == makeScalesMap(getPlotAreaMap)
            at(a) == <<MapPixel(sc.x, a.longitude), MapPixel(sc.y, a.latitude)>>
        IN /\ Len(RouteArcSeq) = n * (n - 1)
           /\ (n <= 1 => RouteArcSeq = <<>>)
           /\ \A i \in 0..(n - 1) : \A j \in 0..(n - 1) :
                 i # j =>
                   /\ ArcPosition(i, j, n) \in 1..Len(RouteArcSeq)
                   /\ RouteArcSeq[ArcPosition(i, j, n)].d.M
                         = at(airports.items[i + 1])
                   /\ RouteArcSeq[ArcPosition(i, j, n)].d.to
                         = at(airports.items[j + 1])
           /\ \A i1 \in 0..(n - 1) : \A j1 \in 0..(n - 1) :
              \A i2 \in 0..(n - 1) : \A j2 \in 0..(n - 1) :
                 (i1 # j1 /\ i2 # j2 /\ <<i1, j1>> # <<i2, j2>>)
                     => ArcPosition(i1, j1, n) # ArcPosition(i2, j2, n)

\* the overlay has been drawn for three different airports: six arcs
C14_Witness ==
    /\ mpc = "drawn"
    /\ Len(airports.items) = 3
    /\ Cardinality({airports.items[k].code : k \in 1..3}) = 3
    /\ Len(RouteArcSeq) = 6

\* C17 (state part): every period starts strictly before it ends, starts on
\* the date of a flagged record and ends on the date of an unflagged one, and
\* each period ends strictly before the next one starts.
PeriodsWellFormed ==
    cpc = "done" =>
        /\ \A m \in 1..Len(periods) :
              /\ periods[m].startDate.time < periods[m].endDate.time
              /\ \E k \in 1..Len(data) :
                    Flagged(k) /\ data[k].date = periods[m].startDate
              /\ \E k \in 1..Len(data) :
                    ~Flagged(k) /\ data[k].date = periods[m].endDate
        /\ \A m \in 1..(Len(periods) - 1) :
              periods[m].endDate.time < periods[m + 1].startDate.time

\* C17: the returned periods are well formed (above) and the input sequence
\* is left as it was.
C17_PeriodsDisjointInputKept ==
    [] PeriodsWellFormed /\ [][data' = data]_vars

\* an input with two runs, one of them longer than a day, has been collapsed
\* into two periods
C17_Witness ==
    /\ cpc = "done"
    /\ Len(periods) = 2
    /\ \E m \in 1..2 : periods[m].endDate.time > periods[m].startDate.time + 1
    /\ Len(data) = MaxLen

\* the color square and the label of row r (0-based) among the appended rows
SquareOfRow(r) == legendRows[2 * r + 1]

LabelOfRow(r) == legendRows[2 * r + 2]

\* C16: every row's color square lies inside the plate, squares of different
\* rows do not overlap, and a label no wider than maxTextWidth that ends at
\* square.x - square.margin starts at or right of plate.margin.
C16_LegendFitsPlate ==
    lpc = "rows" =>
        /\ Len(legendRows) = 2 * numRows
        /\ \A r \in 0..(numRows - 1) :
              /\ SquareOfRow(r).kind = "legendSquare"
              /\ SquareOfRow(r).x = area.square.x
              /\ 0 <= SquareOfRow(r).x
              /\ SquareOfRow(r).x + SquareOfRow(r).width <= area.plate.width
              /\ 0 <= SquareOfRow(r).y
              /\ SquareOfRow(r).y + SquareOfRow(r).height <= area.plate.height
              /\ SquareOfRow(r).width = area.square.width
              /\ SquareOfRow(r).height = area.square.width
              /\ LabelOfRow(r).kind = "legendLabel"
              /\ LabelOfRow(r).x = area.square.x - area.square.margin
              /\ \A w \in 0..maxTextWidth :
                    LabelOfRow(r).x - w >= area.plate.margin
        /\ \A r1 \in 0..(numRows - 1) : \A r2 \in 0..(numRows - 1) :
              r1 < r2 =>
                 SquareOfRow(r1).y + SquareOfRow(r1).height <= SquareOfRow(r2).y

\* the rows of a legend of several rows, sized for a text of some width,
\* have been appended
C16_Witness ==
    /\ lpc = "rows"
    /\ numRows >= 2
    /\ maxTextWidth > 0
    /\ Len(legendRows) = 2 * numRows
    /\ SquareOfRow(numRows - 1).y > SquareOfRow(0).y

-----------------------------------------------------------------------------
(* appendYAxis                                                              *)

\* two real numbers are equal
RealEq(x, y) == ExactSub(x, y).m = <<>>

\* the bounds of the headroom areas, as the expressions
\* domainMin + rateHeadroom and domainMax - rateHeadroom evaluate
HeadroomLow == DAdd(yscale[1], rateHeadroomDouble)

HeadroomHigh == DSub(yscale[2], rateHeadroomDouble)

\* the rate of row k as the callback holds it
RateOfRow(k) == RateOfCsv(data[k].rate)

RoundingSlack == [neg |-> FALSE, m |-> <<1>>, e |-> -50]

\* x <= y + RoundingSlack, and x and y differ by at most RoundingSlack
LeqUpToRounding(x, y) == DLeq(ExactSub(x, y), RoundingSlack)

EqUpToRounding(x, y) == LeqUpToRounding(x, y) /\ LeqUpToRounding(y, x)

-----------------------------------------------------------------------------
(* extractTranslation and the render of the rate chart                      *)

\* a decimal numeral: an optional minus sign, digits, and an optional
\* fraction
IsNumeral(s) ==
    LET t == IF s # <<>> /\ s[1] = "-" THEN Tail(s) ELSE s
    IN \/ IsDigits(t)
       \/ \E p \in 2..(Len(t) - 1) :
             /\ t[p] = "."
             /\ IsDigits(SubSeq(t, 1, p - 1))
             /\ IsDigits(SubSeq(t, p + 1, Len(t)))

\* s reads 'translate(x,y)' for two numerals x and y
IsTranslateForm(s) ==
    \E p \in 1..Len(s) :
        /\ s[p] = ","
        /\ s = TranslateOpen \o SubSeq(s, Len(TranslateOpen) + 1, p - 1)
                 \o <<",">> \o SubSeq(s, p + 1, Len(s) - 1) \o <<")">>
        /\ IsNumeral(SubSeq(s, Len(TranslateOpen) + 1, p - 1))
        /\ IsNumeral(SubSeq(s, p + 1, Len(s) - 1))

\* the ticks in the order the grid-line steps visit them: the y ticks, then
\* the x ticks but for the first
VisitedTicks ==
    SelectTicks(rdom, "yAxis")
    \o (IF SelectTicks(rdom, "xAxis") = <<>> THEN <<>>
        ELSE Tail(SelectTicks(rdom, "xAxis")))

\* a tick that does not carry 'translate(x,y)'
IsOddTick(t) ==
    IF t.transform = Null THEN TRUE ELSE ~IsTranslateForm(t.transform.chars)

\* the text sub occurs in the text msg
Contains(msg, sub) ==
    \E i \in 1..(Len(msg) - Len(sub) + 1) : SubSeq(msg, i, i + Len(sub) - 1) = sub

CountRateKind(kind) == Cardinality({k \in DOMAIN rdom : rdom[k].kind = kind})

====
